---- MODULE Spec2Model ----
(***************************************************************************)
(* Model of the nodenurse operational scripts:                             *)
(*   - src/bin/runcaptopreport.py  capacity-topology reporter              *)
(*   - src/tagunhealthy.py, src/bin/tagunhealthy.py  instance taggers      *)
(*   - src/ncclscout.py            reachability check, pairwise NCCL test, *)
(*                                 good/bad classification and retest      *)
(* Each script is its own process; each has its own specification below.   *)
(***************************************************************************)
EXTENDS Integers, Sequences, FiniteSets, TLC

VARIABLES
    \* ---- capacity-topology reporter (src/bin/runcaptopreport.py)
    rep_pc,         \* "start" | "loop" | "exit"
    response_left,  \* records of response.data not yet iterated
    raw_seen,       \* per (lifecycle_details, instance attached): records iterated
    count,          \* count
    state_counts,   \* state_counts dict: status -> number
    repair_nodes,   \* len(repair_nodes)
    shape_bound,    \* whether the name `shape` has been assigned
    rep_out,        \* what was printed: <<>> or <<[state, total]>>
    rep_exit,       \* process exit code, -1 while running
    rep_listing,    \* "none" | "raised" | "ok": how the listing call ended
    \* ---- instance tagger (src/tagunhealthy.py and src/bin/tagunhealthy.py)
    tag_variant,    \* "root" (src/tagunhealthy.py) | "bin" (src/bin/tagunhealthy.py)
    tag_args,       \* [check, setup, instance_id : BOOLEAN]
    tag_pc,         \* "check" | "setup" | "instance" | "update" | "exit"
    cloud_tags,     \* defined tags of the instance, as the cloud holds them
    fetched_tags,   \* the tag set get_instance returned (history, for the claims)
    tags,           \* the local `tags` dict
    updates,        \* sequence of defined_tags sent by update_instance
    tag_failed,     \* "none" | "get" | "update": the API call that raised ServiceError
    tag_logged,     \* whether "Error: ..." was printed
    tag_exit,       \* process exit code, -1 while running
    \* ---- check_hosts_concurrently (src/ncclscout.py)
    hosts,          \* the `hosts` argument
    futures,        \* per submitted index: "pending" | "running" | "true" | "false" | "raised"
    probe,          \* per index: what its ssh probe did ("-" before it ran)
    collected,      \* indices whose future the as_completed loop has handled
    chk_pc,         \* "idle" | "pool" | "returned"
    reachable_hosts,\* reachable_hosts (of the check, and of the scout that called it)
    \* ---- NCCL scout (src/ncclscout.py)
    mode,           \* "serial" | "parallel" (--parallel)
    sc_pc,          \* position in find_bad_nodes_serial / find_bad_nodes_parallel
    shape_of,       \* shape each queried host reports; "?" before its first query
    pair_i,         \* index of the next pair of the pairing loop
    threshold,      \* the local `threshold` (NoThreshold while unassigned)
    script1,        \* the local `script1` ("unbound" while unassigned, "None" for None)
    thresholds,     \* thresholds dict (parallel)
    pairs_to_test,  \* pairs_to_test list (parallel)
    results,        \* results dict: (host1, host2) -> bandwidth
    calls,          \* run_nccl_test invocations in progress, by call id
    files,          \* temporary host-list files that exist
    completed,      \* progress_tracker['completed'] (parallel)
    good_nodes,
    bad_nodes,
    known_good_node,
    retest_left,    \* bad nodes the retest loop has not reached
    retest_n,       \* idx of the retest loop
    retest_results, \* retest_results dict
    sc_exit,        \* process exit code, -1 while running
    scenario        \* what the run is given: "general" | "distinct" (see ScenarioLists)

repVars == <<rep_pc, response_left, raw_seen, count, state_counts, repair_nodes,
             shape_bound, rep_out, rep_exit, rep_listing>>
tagVars == <<tag_variant, tag_args, tag_pc, cloud_tags, fetched_tags, tags, updates,
             tag_failed, tag_logged, tag_exit>>
chkVars == <<hosts, futures, probe, collected, chk_pc>>
scVars == <<mode, sc_pc, shape_of, pair_i, threshold, script1, thresholds, pairs_to_test,
            results, calls, files, completed, good_nodes, bad_nodes, known_good_node,
            retest_left, retest_n, retest_results, sc_exit>>
vars == <<repVars, tagVars, chkVars, reachable_hosts, scVars, scenario>>

\* Each script is a process of its own: its steps leave the others' state alone.
\* The scenario is fixed when a run starts.
RepFrame == UNCHANGED <<tagVars, chkVars, reachable_hosts, scVars, scenario>>
TagFrame == UNCHANGED <<repVars, chkVars, reachable_hosts, scVars, scenario>>
ChkFrame == UNCHANGED <<repVars, tagVars, scVars, scenario>>
ScFrame == UNCHANGED <<repVars, tagVars, chkVars, scenario>>

(***************************************************************************)
(* Capacity-topology reporter                                              *)
(***************************************************************************)
\* Largest number of host records one listing returns.
MaxNodes == 10

\* lifecycle_details values; "OTHER" stands for any string the script leaves as is.
Lifecycles == {"AVAILABLE", "UNAVAILABLE", "DEGRADED", "OTHER"}
NodeKinds == Lifecycles \X BOOLEAN

\* A mapping that files DEGRADED hosts without an instance under their own status.
DerivedStatusDegradedSplit(status, has_instance) ==
    IF status = "AVAILABLE" THEN (IF has_instance THEN "RUNNING" ELSE "AVAILABLE")
    ELSE IF status = "DEGRADED"
         THEN (IF has_instance THEN "RUNNING" ELSE "UNAVAILABLE_DEGRADED")
    ELSE IF status = "UNAVAILABLE"
         THEN (IF has_instance THEN "RUNNING" ELSE "IN_REPAIR")
    ELSE status

\* The two `if` statements of the loop body, in order.
DerivedStatus(status, has_instance) ==
    LET s1 == IF status = "AVAILABLE"
              THEN (IF has_instance THEN "RUNNING" ELSE "AVAILABLE")
              ELSE status
    IN  IF s1 = "UNAVAILABLE" \/ s1 = "DEGRADED"
        THEN (IF has_instance THEN "RUNNING" ELSE "IN_REPAIR")
        ELSE s1

\* state_counts[status] += 1, or = 1 for a status not yet a key.
CountStatus(counts, status) ==
    IF status \in DOMAIN counts
    THEN [counts EXCEPT ![status] = @ + 1]
    ELSE [s \in DOMAIN counts \cup {status} |->
            IF s = status THEN 1 ELSE counts[s]]

EmptyCounts == [s \in {} |-> 0]

RepInit ==
    /\ rep_pc = "start"
    /\ response_left = 0
    /\ raw_seen = [k \in NodeKinds |-> 0]
    /\ count = 0
    /\ state_counts = EmptyCounts
    /\ repair_nodes = 0
    /\ shape_bound = FALSE
    /\ rep_out = <<>>
    /\ rep_exit = -1
    /\ rep_listing = "none"

\* list_call_get_all_results raises: except Exception -> sys.exit(1).
RepListFails ==
    /\ RepFrame
    /\ rep_pc = "start"
    /\ rep_pc' = "exit"
    /\ rep_exit' = 1
    /\ rep_listing' = "raised"
    /\ UNCHANGED <<response_left, raw_seen, count, state_counts, repair_nodes,
                   shape_bound, rep_out>>

\* list_call_get_all_results returns n records; state_counts = {}.
RepListOk ==
    /\ RepFrame
    /\ rep_pc = "start"
    /\ \E n \in 0..MaxNodes : response_left' = n
    /\ rep_pc' = "loop"
    /\ state_counts' = EmptyCounts
    /\ rep_listing' = "ok"
    /\ UNCHANGED <<raw_seen, count, repair_nodes, shape_bound, rep_out, rep_exit>>

\* One iteration of `for node in response.data`.
RepNode ==
    /\ RepFrame
    /\ rep_pc = "loop"
    /\ response_left > 0
    /\ \E kind \in NodeKinds :
         LET status == DerivedStatus(kind[1], kind[2]) IN
         /\ raw_seen' = [raw_seen EXCEPT ![kind] = @ + 1]
         /\ state_counts' = CountStatus(state_counts, status)
         /\ repair_nodes' = IF status = "IN_REPAIR" THEN repair_nodes + 1
                            ELSE repair_nodes
    /\ shape_bound' = TRUE
    /\ count' = count + 1
    /\ response_left' = response_left - 1
    /\ UNCHANGED <<rep_pc, rep_out, rep_exit, rep_listing>>

\* After the loop: print State, then print("Total ::", count, shape). With no
\* record iterated `shape` was never assigned: NameError, caught by
\* `except Exception`, sys.exit(1). Otherwise the script runs off its end.
RepPrint ==
    /\ RepFrame
    /\ rep_pc = "loop"
    /\ response_left = 0
    /\ rep_pc' = "exit"
    /\ IF shape_bound
       THEN /\ rep_out' = <<[state |-> state_counts, total |-> count]>>
            /\ rep_exit' = 0
       ELSE /\ rep_out' = rep_out
            /\ rep_exit' = 1
    /\ UNCHANGED <<response_left, raw_seen, count, state_counts, repair_nodes,
                   shape_bound, rep_listing>>


(***************************************************************************)
(* Instance tagger                                                         *)
(***************************************************************************)
Namespaces == {"ComputeInstanceHostActions", "Operations"}
TagKeys == {"CustomerReportedHostStatus", "Owner"}
TagValues == {"unhealthy", "healthy"}

PartialFns(D, R) == UNION {[S -> R] : S \in SUBSET D}
\* defined_tags: namespace -> (key -> value)
TagSets == PartialFns(Namespaces, PartialFns(TagKeys, TagValues))

NoTags == [n \in {} |-> 0]

UnhealthyTag == [n \in {"ComputeInstanceHostActions"} |->
                    [k \in {"CustomerReportedHostStatus"} |-> "unhealthy"]]

\* dict.update(other): top-level keys of `other` replace those of `d`.
DictUpdate(d, other) ==
    [k \in DOMAIN d \cup DOMAIN other |->
        IF k \in DOMAIN other THEN other[k] ELSE d[k]]

CheckOutcomes == {"ns_error", "no_namespace", "tags_error", "no_tag", "ok"}

TagInit ==
    /\ tag_variant \in {"root", "bin"}
    /\ tag_args \in [check : BOOLEAN, setup : BOOLEAN, instance_id : BOOLEAN]
    \* src/tagunhealthy.py: --instance-id is required, no --check / --setup
    /\ tag_variant = "root" =>
         tag_args = [check |-> FALSE, setup |-> FALSE, instance_id |-> TRUE]
    /\ tag_pc = IF tag_variant = "bin" THEN "check" ELSE "instance"
    /\ cloud_tags \in TagSets
    /\ fetched_tags = NoTags
    /\ tags = NoTags
    /\ updates = <<>>
    /\ tag_failed = "none"
    /\ tag_logged = FALSE
    /\ tag_exit = -1

\* `if args.check: checktags()`; every path of checktags ends in sys.exit.
TagCheck ==
    /\ TagFrame
    /\ tag_pc = "check"
    /\ IF tag_args.check
       THEN \E o \in CheckOutcomes :
              /\ tag_pc' = "exit"
              /\ tag_exit' = IF o = "ok" THEN 0 ELSE 1
              /\ tag_logged' = (o \in {"ns_error", "tags_error"})
       ELSE /\ tag_pc' = "setup"
            /\ UNCHANGED <<tag_exit, tag_logged>>
    /\ UNCHANGED <<tag_variant, tag_args, cloud_tags, fetched_tags, tags, updates,
                   tag_failed>>

\* `if args.setup: createtag()`; an exception prints and exits 1.
TagSetup ==
    /\ TagFrame
    /\ tag_pc = "setup"
    /\ IF tag_args.setup
       THEN \E ok \in BOOLEAN :
              IF ok THEN /\ tag_pc' = "instance"
                         /\ UNCHANGED <<tag_exit, tag_logged>>
                    ELSE /\ tag_pc' = "exit"
                         /\ tag_exit' = 1
                         /\ tag_logged' = TRUE
       ELSE /\ tag_pc' = "instance"
            /\ UNCHANGED <<tag_exit, tag_logged>>
    /\ UNCHANGED <<tag_variant, tag_args, cloud_tags, fetched_tags, tags, updates,
                   tag_failed>>

\* What the except clause does: the root script only prints and so ends with 0;
\* the bin script prints and calls sys.exit(1).
ServiceErrorExit(variant) == IF variant = "bin" THEN 1 ELSE 0

\* `if args.instance_id:` (bin); get_instance, then tags.update(...).
TagGet ==
    /\ TagFrame
    /\ tag_pc = "instance"
    /\ IF ~tag_args.instance_id
       THEN /\ tag_pc' = "exit"
            /\ tag_exit' = 0
            /\ UNCHANGED <<fetched_tags, tags, tag_failed, tag_logged>>
       ELSE \E ok \in BOOLEAN :
              IF ok
              THEN /\ fetched_tags' = cloud_tags
                   /\ tags' = DictUpdate(cloud_tags, UnhealthyTag)
                   /\ tag_pc' = "update"
                   /\ UNCHANGED <<tag_failed, tag_logged, tag_exit>>
              ELSE /\ tag_failed' = "get"
                   /\ tag_logged' = TRUE
                   /\ tag_pc' = "exit"
                   /\ tag_exit' = ServiceErrorExit(tag_variant)
                   /\ UNCHANGED <<fetched_tags, tags>>
    /\ UNCHANGED <<tag_variant, tag_args, cloud_tags, updates>>

\* update_instance(defined_tags=tags)
TagUpdate ==
    /\ TagFrame
    /\ tag_pc = "update"
    /\ \E ok \in BOOLEAN :
         IF ok
         THEN /\ updates' = Append(updates, tags)
              /\ cloud_tags' = tags
              /\ tag_exit' = 0
              /\ UNCHANGED <<tag_failed, tag_logged>>
         ELSE /\ tag_failed' = "update"
              /\ tag_logged' = TRUE
              /\ tag_exit' = ServiceErrorExit(tag_variant)
              /\ UNCHANGED <<updates, cloud_tags>>
    /\ tag_pc' = "exit"
    /\ UNCHANGED <<tag_variant, tag_args, fetched_tags, tags>>


(***************************************************************************)
(* Host lists                                                              *)
(***************************************************************************)
Hosts == {"h1", "h2", "h3", "h4", "h5", "h6"}
HostNum(h) == CASE h = "h1" -> 1 [] h = "h2" -> 2 [] h = "h3" -> 3
                [] h = "h4" -> 4 [] h = "h5" -> 5 [] OTHER -> 6

SeqsUpTo(S, n) == UNION {[1..k -> S] : k \in 0..n}

\* Host identifiers are opaque to the code: a list is taken with its hosts named
\* in the order of their first occurrence (h1, then h2, ...). A list may
\* name a host more than once (a host file with a repeated line, a node that
\* sinfo -N lists once per partition).
FirstOccurrenceOrder(list) ==
    \A i \in 1..Len(list) :
        \A n \in 1..(HostNum(list[i]) - 1) :
            \E j \in 1..(i - 1) : HostNum(list[j]) = n

HostLists(n) == {l \in SeqsUpTo(Hosts, n) : FirstOccurrenceOrder(l)}

Occurrences(list, h) == Cardinality({i \in 1..Len(list) : list[i] = h})

(***************************************************************************)
(* check_hosts_concurrently                                                *)
(***************************************************************************)
\* Longest host list handed to the reachability check on its own.
MaxCheckHosts == 3

\* max_workers=10
MaxWorkers == 10

\* What the ssh probe of check_host_reachability can do: exit 0, exit non-zero
\* (CalledProcessError), or fail to run at all (any other exception).
ProbeOutcomes == {"ssh_ok", "ssh_failed", "other_exception"}

\* A check_host_reachability that reports every host whose probe ran as reachable.
CheckHostReachabilityNoExcept(outcome) ==
    IF outcome = "other_exception" THEN "raised" ELSE "true"

\* check_host_reachability: True, False (CalledProcessError caught and printed),
\* or the exception it does not catch.
CheckHostReachability(outcome) ==
    CASE outcome = "ssh_ok" -> "true"
      [] outcome = "ssh_failed" -> "false"
      [] OTHER -> "raised"

EmptyFutures == [i \in {} |-> "pending"]

ChkInit ==
    /\ hosts \in HostLists(MaxCheckHosts)
    /\ futures = [i \in 1..Len(hosts) |-> "pending"]
    /\ probe = [i \in 1..Len(hosts) |-> "-"]
    /\ collected = {}
    /\ chk_pc = "pool"
    /\ reachable_hosts = <<>>

\* A pool thread takes a submitted task.
ChkStart ==
    /\ ChkFrame
    /\ chk_pc = "pool"
    /\ Cardinality({i \in DOMAIN futures : futures[i] = "running"}) < MaxWorkers
    /\ \E i \in DOMAIN futures :
         /\ futures[i] = "pending"
         /\ futures' = [futures EXCEPT ![i] = "running"]
    /\ UNCHANGED <<hosts, probe, collected, chk_pc, reachable_hosts>>

\* check_and_return(host) finishes in its thread.
ChkProbe ==
    /\ ChkFrame
    /\ chk_pc = "pool"
    /\ \E i \in DOMAIN futures :
         /\ futures[i] = "running"
         /\ \E o \in ProbeOutcomes :
              /\ probe' = [probe EXCEPT ![i] = o]
              /\ futures' = [futures EXCEPT ![i] = CheckHostReachability(o)]
    /\ UNCHANGED <<hosts, collected, chk_pc, reachable_hosts>>

\* One iteration of `for future in as_completed(futures)`: future.result() is the
\* host (appended), None (skipped), or raises (caught and printed).
ChkCollect ==
    /\ ChkFrame
    /\ chk_pc = "pool"
    /\ \E i \in DOMAIN futures \ collected :
         /\ futures[i] \in {"true", "false", "raised"}
         /\ reachable_hosts' = IF futures[i] = "true"
                               THEN Append(reachable_hosts, hosts[i])
                               ELSE reachable_hosts
         /\ collected' = collected \cup {i}
    /\ UNCHANGED <<hosts, futures, probe, chk_pc>>

\* as_completed is exhausted, the executor shuts down, return reachable_hosts.
ChkReturn ==
    /\ ChkFrame
    /\ chk_pc = "pool"
    /\ collected = DOMAIN futures
    /\ chk_pc' = "returned"
    /\ UNCHANGED <<hosts, futures, probe, collected, reachable_hosts>>

(***************************************************************************)
(* GPU shapes and run_nccl_test                                            *)
(***************************************************************************)
\* None, for a threshold and for a bandwidth
NoThreshold == -1
NoBandwidth == -1

\* Shapes a queried node reports: one A100 shape, one H100 shape and one the
\* table does not know.
Shapes == {"BM.GPU.B4.8", "BM.GPU.H100.8", "VM.Standard.E4"}

AllreduceScript == "nccl_run_allreduce.sh"
AllreduceH100Script == "nccl_run_allreduce_H100_200.sh"

\* determine_gpu_model over GPU_SHAPES: (model, threshold, script), or
\* (None, None, None) for a shape no entry lists.
DetermineGpuModel(shape) ==
    CASE shape \in {"BM.GPU.B4.8", "BM.GPU.A100-v2.8"} ->
           [model |-> "A100", threshold |-> 185, script |-> AllreduceScript]
      [] shape \in {"BM.GPU.H100.8"} ->
           [model |-> "H100", threshold |-> 365, script |-> AllreduceH100Script]
      [] shape \in {"BM.GPU.H200.8"} ->
           [model |-> "H200", threshold |-> 365, script |-> AllreduceH100Script]
      [] OTHER ->
           [model |-> "None", threshold |-> NoThreshold, script |-> "None"]

Min(a, b) == IF a <= b THEN a ELSE b

\* Bandwidths a benchmark reports: below every threshold, exactly the A100
\* threshold (and below the H100 one), above every threshold.
Bandwidths == {100, 185, 400}

\* What the benchmark subprocess and the parse of its output can do.
\*   valid_line     exit 0, a line whose second-to-last column is the bandwidth
\*   no_valid_line  exit 0, no line passes the filter
\*   bad_number     exit 0, a line passes the isdigit filter, float() rejects it
\*   timeout        timeout(1) kills the benchmark and exits 124
\*   nonzero_exit   the benchmark exits non-zero
\*   os_error       the script cannot be executed, or the log cannot be opened
RunOutcomes ==
    [kind : {"valid_line"}, bw : Bandwidths]
    \cup [kind : {"no_valid_line", "bad_number", "timeout", "nonzero_exit", "os_error"},
          bw : {NoBandwidth}]

\* The outcomes a scenario lets the benchmark have. In a "distinct" run every
\* benchmark that can be executed completes and reports a bandwidth that is
\* clear of both thresholds.
ScenarioOutcomes ==
    IF scenario = "general"
    THEN RunOutcomes
    ELSE [kind : {"valid_line"}, bw : Bandwidths \ {185}]

\* The exception the try body raises: check_output is called without timeout=,
\* so a benchmark killed by timeout(1) is a non-zero exit like any other.
RaisedBy(kind) ==
    CASE kind \in {"timeout", "nonzero_exit"} -> "CalledProcessError"
      [] kind = "bad_number" -> "ValueError"
      [] kind = "os_error" -> "OSError"
      [] kind = "none_script" -> "TypeError"
      [] OTHER -> "none"

\* except clauses that leave CalledProcessError out.
CaughtWithoutCalledProcessError(exc) == exc \in {"TimeoutExpired", "ValueError"}

\* The except clauses of run_nccl_test.
Caught(exc) == exc \in {"TimeoutExpired", "CalledProcessError", "ValueError"}

\* How the try statement is left: a return value or a propagating exception, and
\* whether a warning or an error was printed.
TryResult(outcome) ==
    LET exc == RaisedBy(outcome.kind) IN
    IF exc = "none"
    THEN IF outcome.kind = "valid_line"
         THEN [kind |-> "return", value |-> outcome.bw, logged |-> FALSE]
         ELSE [kind |-> "return", value |-> NoBandwidth, logged |-> TRUE]
    ELSE IF Caught(exc)
         THEN [kind |-> "return", value |-> NoBandwidth, logged |-> TRUE]
         ELSE [kind |-> "raise", value |-> NoBandwidth, logged |-> FALSE]

\* A cleanup that runs only when the try statement returns.
RemoveHostsFileOnReturn(fs, f, pending) ==
    IF pending.kind = "return" THEN fs \ {f} ELSE fs

\* finally: if os.path.exists(hosts_file): os.remove(hosts_file)
RemoveHostsFile(fs, f, pending) == fs \ {f}

NoOutcome == [kind |-> "-", bw |-> NoBandwidth]
NoPending == [kind |-> "-", value |-> NoBandwidth, logged |-> FALSE]

\* A call of run_nccl_test(host1, host2, nccl_script) that has not started.
NewCall(h1, h2, script) ==
    [host1 |-> h1, host2 |-> h2, script |-> script, pc |-> "queued",
     outcome |-> NoOutcome, pending |-> NoPending]

DictSet(d, k, v) == [x \in DOMAIN d \cup {k} |-> IF x = k THEN v ELSE d[x]]
DictDel(d, k) == [x \in DOMAIN d \ {k} |-> d[x]]

\* write_hosts_file: the file named after the call (a fresh uuid) now exists.
NcclWrite ==
    /\ ScFrame
    /\ \E id \in DOMAIN calls :
         /\ calls[id].pc = "queued"
         /\ files' = files \cup {id}
         /\ calls' = [calls EXCEPT ![id].pc = "try"]
    /\ UNCHANGED <<reachable_hosts, mode, sc_pc, shape_of, pair_i, threshold, script1,
                   thresholds, pairs_to_test, results, completed, good_nodes,
                   bad_nodes, known_good_node, retest_left, retest_n,
                   retest_results, sc_exit>>

\* The try statement: the benchmark runs, its output is parsed, the except
\* clauses apply. A script of None cannot be executed at all.
NcclRun ==
    /\ ScFrame
    /\ \E id \in DOMAIN calls :
         /\ calls[id].pc = "try"
         /\ \E o \in IF calls[id].script = "None"
                     THEN {[kind |-> "none_script", bw |-> NoBandwidth]}
                     ELSE ScenarioOutcomes :
              calls' = [calls EXCEPT ![id].pc = "finally",
                                     ![id].outcome = o,
                                     ![id].pending = TryResult(o)]
    /\ UNCHANGED <<reachable_hosts, mode, sc_pc, shape_of, pair_i, threshold, script1,
                   thresholds, pairs_to_test, results, files, completed, good_nodes,
                   bad_nodes, known_good_node, retest_left, retest_n,
                   retest_results, sc_exit>>

\* The finally clause, after which the call returns or raises.
NcclFinally ==
    /\ ScFrame
    /\ \E id \in DOMAIN calls :
         /\ calls[id].pc = "finally"
         /\ files' = RemoveHostsFile(files, id, calls[id].pending)
         /\ calls' = [calls EXCEPT ![id].pc = "ended"]
    /\ UNCHANGED <<reachable_hosts, mode, sc_pc, shape_of, pair_i, threshold, script1,
                   thresholds, pairs_to_test, results, completed, good_nodes,
                   bad_nodes, known_good_node, retest_left, retest_n,
                   retest_results, sc_exit>>

(***************************************************************************)
(* find_bad_nodes_serial / find_bad_nodes_parallel                         *)
(***************************************************************************)
\* Longest list of reachable hosts a scout run works on.
MaxHosts == 4

\* Longest list of distinct hosts a scout run works on.
MaxDistinctHosts == 6

\* The host lists a scenario reads: any list of up to MaxHosts entries, or a
\* list of up to MaxDistinctHosts hosts that names no host twice.
ScenarioLists ==
    IF scenario = "general"
    THEN SeqsUpTo(Hosts, MaxHosts)
    ELSE {l \in SeqsUpTo(Hosts, MaxDistinctHosts) :
            \A h \in Hosts : Occurrences(l, h) <= 1}

\* The lists of reachable hosts of a scenario, hosts named in the order of
\* their first occurrence: of distinct hosts, that is h1, h2, ... in this order.
ScenarioReachable ==
    IF scenario = "general"
    THEN HostLists(MaxHosts)
    ELSE {[i \in 1..k |-> CHOOSE h \in Hosts : HostNum(h) = i] :
            k \in 0..Min(MaxDistinctHosts, Cardinality(Hosts))}

\* zip(reachable_hosts[::2], reachable_hosts[1::2])
NumPairs == Len(reachable_hosts) \div 2
PairAt(k) == <<reachable_hosts[2 * k - 1], reachable_hosts[2 * k]>>

\* What check_hosts_concurrently can return for the list hs: some of its entries,
\* in any order (see SpecReach).
CheckResult(r, hs) == \A h \in Hosts : Occurrences(r, h) <= Occurrences(hs, h)

\* get_remote_node_shape for the two hosts of a pair. A host reports the same
\* shape whenever it is asked. "VM.Standard.E4" stands for every answer
\* determine_gpu_model does not recognise, None (a failed query) included.
ShapeChoices(h) == IF shape_of[h] = "?" THEN Shapes ELSE {shape_of[h]}
PairShapes(h1, h2) ==
    {ss \in ShapeChoices(h1) \X ShapeChoices(h2) : h1 = h2 => ss[1] = ss[2]}

\* A bad set that takes a bandwidth equal to the threshold as below it.
BadNodesOfInclusive(res, thr) ==
    {h \in Hosts : \E pr \in DOMAIN res : res[pr] <= thr[pr] /\ h \in {pr[1], pr[2]}}

\* {host for pair, bw in results.items() if bw >= threshold for host in pair}
GoodNodesOf(res, thr) ==
    {h \in Hosts : \E pr \in DOMAIN res : res[pr] >= thr[pr] /\ h \in {pr[1], pr[2]}}

\* {host for pair, bw in results.items() if bw < threshold for host in pair}
BadNodesOf(res, thr) ==
    {h \in Hosts : \E pr \in DOMAIN res : res[pr] < thr[pr] /\ h \in {pr[1], pr[2]}}

\* The serial path compares every pair with the local `threshold`, which holds
\* the value of the last pair that was not skipped.
SerialThresholds == [pr \in DOMAIN results |-> threshold]

\* The parallel path compares each pair with thresholds.get((host1, host2), 0).
ParallelThresholds ==
    [pr \in DOMAIN results |-> IF pr \in DOMAIN thresholds THEN thresholds[pr] ELSE 0]

ScInit ==
    /\ mode \in {"serial", "parallel"}
    /\ sc_pc = "start"
    /\ reachable_hosts = <<>>
    /\ shape_of = [h \in Hosts |-> "?"]
    /\ pair_i = 1
    /\ threshold = NoThreshold
    /\ script1 = "unbound"
    /\ thresholds = <<>>
    /\ pairs_to_test = <<>>
    /\ results = <<>>
    /\ calls = <<>>
    /\ files = {}
    /\ completed = 0
    /\ good_nodes = {}
    /\ bad_nodes = {}
    /\ known_good_node = "none"
    /\ retest_left = {}
    /\ retest_n = 0
    /\ retest_results = <<>>
    /\ sc_exit = -1

\* More than two positional arguments: usage message, return.
ScUsage ==
    /\ ScFrame
    /\ sc_pc = "start"
    /\ sc_pc' = "done"
    /\ sc_exit' = 0
    /\ UNCHANGED <<reachable_hosts, mode, shape_of, pair_i, threshold, script1,
                   thresholds, pairs_to_test, results, calls, files, completed,
                   good_nodes, bad_nodes, known_good_node, retest_left, retest_n,
                   retest_results>>

\* Two positional arguments: one test between the two hosts, with the threshold
\* and the script of the first host's shape.
ScDirect ==
    /\ ScFrame
    /\ sc_pc = "start"
    /\ \E h2 \in {"h1", "h2"} : \E s \in Shapes :
         LET m == DetermineGpuModel(s) IN
         /\ shape_of' = [shape_of EXCEPT !["h1"] = s]
         /\ IF m.model = "None"
            THEN /\ sc_pc' = "done"
                 /\ sc_exit' = 0
                 /\ UNCHANGED <<calls, threshold>>
            ELSE /\ threshold' = m.threshold
                 /\ calls' = DictSet(calls, 1, NewCall("h1", h2, m.script))
                 /\ sc_pc' = "direct"
                 /\ UNCHANGED sc_exit
    /\ UNCHANGED <<reachable_hosts, mode, pair_i, script1, thresholds, pairs_to_test,
                   results, files, completed, good_nodes, bad_nodes,
                   known_good_node, retest_left, retest_n, retest_results>>

\* The direct test returned (the result is printed) or raised.
ScDirectEnd ==
    /\ ScFrame
    /\ sc_pc = "direct"
    /\ calls[1].pc = "ended"
    /\ calls' = DictDel(calls, 1)
    /\ IF calls[1].pending.kind = "raise"
       THEN sc_pc' = "crashed" /\ sc_exit' = 1
       ELSE sc_pc' = "done" /\ sc_exit' = 0
    /\ UNCHANGED <<reachable_hosts, mode, shape_of, pair_i, threshold, script1,
                   thresholds, pairs_to_test, results, files, completed,
                   good_nodes, bad_nodes, known_good_node, retest_left, retest_n,
                   retest_results>>

\* No argument or a host file: the host list is read, the reachable hosts are
\* kept; no host, or fewer than two reachable ones, and the function returns.
ScCheckHosts ==
    /\ ScFrame
    /\ sc_pc = "start"
    /\ \E r \in ScenarioReachable : \E hs \in ScenarioLists :
         IF hs = <<>>
         THEN /\ r = <<>>
              /\ sc_pc' = "done"
              /\ sc_exit' = 0
              /\ UNCHANGED reachable_hosts
         ELSE /\ CheckResult(r, hs)
              /\ reachable_hosts' = r
              /\ IF Len(r) < 2
                 THEN sc_pc' = "not_enough" /\ sc_exit' = 0
                 ELSE sc_pc' = "pairing" /\ UNCHANGED sc_exit
    /\ UNCHANGED <<mode, shape_of, pair_i, threshold, script1, thresholds,
                   pairs_to_test, results, calls, files, completed, good_nodes,
                   bad_nodes, known_good_node, retest_left, retest_n,
                   retest_results>>

\* Serial: one iteration of the pairing loop up to the call of run_nccl_test.
\* script1 is assigned before the skip test; threshold only when not skipped.
SerialPair ==
    /\ ScFrame
    /\ mode = "serial"
    /\ sc_pc = "pairing"
    /\ pair_i <= NumPairs
    /\ LET h1 == PairAt(pair_i)[1]
           h2 == PairAt(pair_i)[2]
       IN \E ss \in PairShapes(h1, h2) :
            LET m1 == DetermineGpuModel(ss[1])
                m2 == DetermineGpuModel(ss[2])
            IN
            /\ shape_of' = [shape_of EXCEPT ![h1] = ss[1], ![h2] = ss[2]]
            /\ script1' = m1.script
            /\ IF m1.model = "None" \/ m2.model = "None"
               THEN /\ pair_i' = pair_i + 1
                    /\ UNCHANGED <<threshold, calls, sc_pc>>
               ELSE /\ threshold' = Min(m1.threshold, m2.threshold)
                    /\ calls' = DictSet(calls, pair_i, NewCall(h1, h2, m1.script))
                    /\ sc_pc' = "testing"
                    /\ UNCHANGED pair_i
    /\ UNCHANGED <<reachable_hosts, mode, thresholds, pairs_to_test, results, files,
                   completed, good_nodes, bad_nodes, known_good_node, retest_left,
                   retest_n, retest_results, sc_exit>>

\* Serial: run_nccl_test came back; `if bandwidth is not None: results[...] = ...`.
\* An exception it let through ends the process with a traceback.
SerialCollect ==
    /\ ScFrame
    /\ sc_pc = "testing"
    /\ calls[pair_i].pc = "ended"
    /\ LET c == calls[pair_i] IN
       IF c.pending.kind = "raise"
       THEN /\ sc_pc' = "crashed"
            /\ sc_exit' = 1
            /\ UNCHANGED <<results, pair_i>>
       ELSE /\ results' = IF c.pending.value # NoBandwidth
                          THEN DictSet(results, <<c.host1, c.host2>>, c.pending.value)
                          ELSE results
            /\ pair_i' = pair_i + 1
            /\ sc_pc' = "pairing"
            /\ UNCHANGED sc_exit
    /\ calls' = DictDel(calls, pair_i)
    /\ UNCHANGED <<reachable_hosts, mode, shape_of, threshold, script1, thresholds,
                   pairs_to_test, files, completed, good_nodes, bad_nodes,
                   known_good_node, retest_left, retest_n, retest_results>>

\* Serial: after the loop, the good and the bad set.
SerialClassify ==
    /\ ScFrame
    /\ mode = "serial"
    /\ sc_pc = "pairing"
    /\ pair_i > NumPairs
    /\ good_nodes' = GoodNodesOf(results, SerialThresholds)
    /\ bad_nodes' = BadNodesOf(results, SerialThresholds)
    /\ sc_pc' = "classified"
    /\ UNCHANGED <<reachable_hosts, mode, shape_of, pair_i, threshold, script1,
                   thresholds, pairs_to_test, results, calls, files, completed,
                   known_good_node, retest_left, retest_n, retest_results, sc_exit>>

\* Parallel: one iteration of the loop that prepares the test pairs.
ParPair ==
    /\ ScFrame
    /\ mode = "parallel"
    /\ sc_pc = "pairing"
    /\ pair_i <= NumPairs
    /\ LET h1 == PairAt(pair_i)[1]
           h2 == PairAt(pair_i)[2]
       IN \E ss \in PairShapes(h1, h2) :
            LET m1 == DetermineGpuModel(ss[1])
                m2 == DetermineGpuModel(ss[2])
            IN
            /\ shape_of' = [shape_of EXCEPT ![h1] = ss[1], ![h2] = ss[2]]
            /\ script1' = m1.script
            /\ IF m1.model = "None" \/ m2.model = "None"
               THEN UNCHANGED <<threshold, thresholds, pairs_to_test>>
               ELSE /\ threshold' = Min(m1.threshold, m2.threshold)
                    /\ thresholds' = DictSet(thresholds, <<h1, h2>>,
                                             Min(m1.threshold, m2.threshold))
                    /\ pairs_to_test' = Append(pairs_to_test, <<h1, h2, m1.script>>)
    /\ pair_i' = pair_i + 1
    /\ UNCHANGED <<reachable_hosts, mode, sc_pc, results, calls, files, completed,
                   good_nodes, bad_nodes, known_good_node, retest_left, retest_n,
                   retest_results, sc_exit>>

\* Parallel: every prepared pair is submitted to the process pool.
ParSubmit ==
    /\ ScFrame
    /\ mode = "parallel"
    /\ sc_pc = "pairing"
    /\ pair_i > NumPairs
    /\ calls' = [k \in 1..Len(pairs_to_test) |->
                   NewCall(pairs_to_test[k][1], pairs_to_test[k][2], pairs_to_test[k][3])]
    /\ results' = <<>>
    /\ completed' = 0
    /\ sc_pc' = "pool"
    /\ UNCHANGED <<reachable_hosts, mode, shape_of, pair_i, threshold, script1,
                   thresholds, pairs_to_test, files, good_nodes, bad_nodes,
                   known_good_node, retest_left, retest_n, retest_results, sc_exit>>

\* Parallel: one iteration of the as_completed loop: the bandwidth is recorded,
\* None is dropped, an exception is caught and printed; the progress advances.
ParCollect ==
    /\ ScFrame
    /\ sc_pc = "pool"
    /\ \E id \in DOMAIN calls :
         LET c == calls[id] IN
         /\ c.pc = "ended"
         /\ results' = IF c.pending.kind = "return" /\ c.pending.value # NoBandwidth
                       THEN DictSet(results, <<c.host1, c.host2>>, c.pending.value)
                       ELSE results
         /\ calls' = DictDel(calls, id)
    /\ completed' = completed + 1
    /\ UNCHANGED <<reachable_hosts, mode, sc_pc, shape_of, pair_i, threshold, script1,
                   thresholds, pairs_to_test, files, good_nodes, bad_nodes,
                   known_good_node, retest_left, retest_n, retest_results, sc_exit>>

\* Parallel: the loop over the sorted results that fills the good and bad sets.
ParClassify ==
    /\ ScFrame
    /\ sc_pc = "pool"
    /\ calls = <<>>
    /\ good_nodes' = GoodNodesOf(results, ParallelThresholds)
    /\ bad_nodes' = BadNodesOf(results, ParallelThresholds)
    /\ sc_pc' = "classified"
    /\ UNCHANGED <<reachable_hosts, mode, shape_of, pair_i, threshold, script1,
                   thresholds, pairs_to_test, results, calls, files, completed,
                   known_good_node, retest_left, retest_n, retest_results, sc_exit>>

\* `if good_nodes:` known_good_node = next(iter(good_nodes)) and the retest loop
\* begins; with no good node the summary is printed and the function returns.
ScRetestBegin ==
    /\ ScFrame
    /\ sc_pc = "classified"
    /\ IF good_nodes = {}
       THEN /\ sc_pc' = "done"
            /\ sc_exit' = 0
            /\ UNCHANGED <<known_good_node, retest_left>>
       ELSE /\ \E g \in good_nodes : known_good_node' = g
            /\ retest_left' = bad_nodes
            /\ sc_pc' = "retest"
            /\ UNCHANGED sc_exit
    /\ retest_n' = 0
    /\ retest_results' = <<>>
    /\ UNCHANGED <<reachable_hosts, mode, shape_of, pair_i, threshold, script1,
                   thresholds, pairs_to_test, results, calls, files, completed,
                   good_nodes, bad_nodes>>

\* retest_bad_nodes_with_progress: the next bad node, tested with script1.
RetestNext ==
    /\ ScFrame
    /\ sc_pc = "retest"
    /\ \E node \in retest_left :
         /\ retest_left' = retest_left \ {node}
         /\ calls' = DictSet(calls, NumPairs + retest_n + 1,
                             NewCall(known_good_node, node, script1))
    /\ retest_n' = retest_n + 1
    /\ sc_pc' = "retesting"
    /\ UNCHANGED <<reachable_hosts, mode, shape_of, pair_i, threshold, script1,
                   thresholds, pairs_to_test, results, files, completed, good_nodes,
                   bad_nodes, known_good_node, retest_results, sc_exit>>

\* The retest came back: a bandwidth is recorded in retest_results.
RetestCollect ==
    /\ ScFrame
    /\ sc_pc = "retesting"
    /\ LET id == NumPairs + retest_n
           c == calls[id]
       IN /\ c.pc = "ended"
          /\ calls' = DictDel(calls, id)
          /\ IF c.pending.kind = "raise"
             THEN /\ sc_pc' = "crashed"
                  /\ sc_exit' = 1
                  /\ UNCHANGED retest_results
             ELSE /\ retest_results' =
                       IF c.pending.value # NoBandwidth
                       THEN DictSet(retest_results, <<c.host1, c.host2>>, c.pending.value)
                       ELSE retest_results
                  /\ sc_pc' = "retest"
                  /\ UNCHANGED sc_exit
    /\ UNCHANGED <<reachable_hosts, mode, shape_of, pair_i, threshold, script1,
                   thresholds, pairs_to_test, results, files, completed, good_nodes,
                   bad_nodes, known_good_node, retest_left, retest_n>>

\* Every bad node was retested: retest results and summary are printed.
RetestEnd ==
    /\ ScFrame
    /\ sc_pc = "retest"
    /\ retest_left = {}
    /\ sc_pc' = "done"
    /\ sc_exit' = 0
    /\ UNCHANGED <<reachable_hosts, mode, shape_of, pair_i, threshold, script1,
                   thresholds, pairs_to_test, results, calls, files, completed,
                   good_nodes, bad_nodes, known_good_node, retest_left, retest_n,
                   retest_results>>

(***************************************************************************)
(* Processes that are not running                                          *)
(***************************************************************************)
RepIdle ==
    /\ rep_pc = "exit"
    /\ response_left = 0
    /\ raw_seen = [k \in NodeKinds |-> 0]
    /\ count = 0
    /\ state_counts = EmptyCounts
    /\ repair_nodes = 0
    /\ shape_bound = FALSE
    /\ rep_out = <<>>
    /\ rep_exit = -1
    /\ rep_listing = "none"

TagIdle ==
    /\ tag_variant = "root"
    /\ tag_args = [check |-> FALSE, setup |-> FALSE, instance_id |-> TRUE]
    /\ tag_pc = "exit"
    /\ cloud_tags = NoTags
    /\ fetched_tags = NoTags
    /\ tags = NoTags
    /\ updates = <<>>
    /\ tag_failed = "none"
    /\ tag_logged = FALSE
    /\ tag_exit = -1

ChkIdle ==
    /\ hosts = <<>>
    /\ futures = EmptyFutures
    /\ probe = EmptyFutures
    /\ collected = {}
    /\ chk_pc = "idle"

ScIdle ==
    /\ mode = "serial"
    /\ sc_pc = "done"
    /\ shape_of = [h \in Hosts |-> "?"]
    /\ pair_i = 1
    /\ threshold = NoThreshold
    /\ script1 = "unbound"
    /\ thresholds = <<>>
    /\ pairs_to_test = <<>>
    /\ results = <<>>
    /\ calls = <<>>
    /\ files = {}
    /\ completed = 0
    /\ good_nodes = {}
    /\ bad_nodes = {}
    /\ known_good_node = "none"
    /\ retest_left = {}
    /\ retest_n = 0
    /\ retest_results = <<>>
    /\ sc_exit = -1
    /\ scenario = "general"

(***************************************************************************)
(* Specifications                                                          *)
(***************************************************************************)
ReportInit == RepInit /\ TagIdle /\ ChkIdle /\ reachable_hosts = <<>> /\ ScIdle
ReportNext == RepListFails \/ RepListOk \/ RepNode \/ RepPrint
SpecReport == ReportInit /\ [][ReportNext]_vars

TaggerInit == TagInit /\ RepIdle /\ ChkIdle /\ reachable_hosts = <<>> /\ ScIdle
TaggerNext == TagCheck \/ TagSetup \/ TagGet \/ TagUpdate
SpecTagger == TaggerInit /\ [][TaggerNext]_vars

ReachInit == ChkInit /\ RepIdle /\ TagIdle /\ ScIdle
ReachNext == ChkStart \/ ChkProbe \/ ChkCollect \/ ChkReturn
SpecReach == ReachInit /\ [][ReachNext]_vars

ScoutInit == ScInit /\ scenario = "general" /\ RepIdle /\ TagIdle /\ ChkIdle
ScoutNext ==
    \/ ScUsage \/ ScDirect \/ ScDirectEnd \/ ScCheckHosts
    \/ SerialPair \/ SerialCollect \/ SerialClassify
    \/ ParPair \/ ParSubmit \/ ParCollect \/ ParClassify
    \/ ScRetestBegin \/ RetestNext \/ RetestCollect \/ RetestEnd
    \/ NcclWrite \/ NcclRun \/ NcclFinally
SpecScout == ScoutInit /\ [][ScoutNext]_vars

\* The scout on a host list of distinct hosts, long enough for three pairs.
ScoutDistinctInit == ScInit /\ scenario = "distinct" /\ RepIdle /\ TagIdle /\ ChkIdle
SpecScoutDistinct == ScoutDistinctInit /\ [][ScoutNext]_vars

(***************************************************************************)
(* Properties: NCCL scout                                                  *)
(***************************************************************************)
\* C1: however a call of run_nccl_test ends (a bandwidth, None, or an exception
\* it lets through), its temporary host-list file no longer exists once the call
\* has ended; the only host-list files that exist belong to calls still inside
\* their try statement.
HostsFileRemovedAtExit ==
    /\ \A id \in DOMAIN calls : calls[id].pc = "ended" => id \notin files
    /\ files \subseteq {id \in DOMAIN calls : calls[id].pc \in {"try", "finally"}}

\* A call has ended by raising and its file is gone.
HostsFileWitness ==
    \E id \in DOMAIN calls :
        /\ calls[id].pc = "ended"
        /\ calls[id].outcome.kind = "os_error"
        /\ calls[id].pending.kind = "raise"
        /\ id \notin files

\* The ways a benchmark fails that the claim names: timeout, non-zero exit,
\* output that cannot be parsed.
FailureKinds == {"timeout", "nonzero_exit", "bad_number", "no_valid_line"}

\* C2: a call whose benchmark timed out, exited non-zero or printed nothing
\* parsable ends by returning None after logging, never by raising, and the
\* caller that takes this result adds no entry to results (nor to
\* retest_results) and goes on.
NcclFailureReturnsNone ==
    [][\A id \in DOMAIN calls :
         (calls[id].pc = "ended" /\ calls[id].outcome.kind \in FailureKinds) =>
            /\ calls[id].pending =
                 [kind |-> "return", value |-> NoBandwidth, logged |-> TRUE]
            /\ id \notin DOMAIN calls' =>
                 /\ results' = results
                 /\ retest_results' = retest_results
                 /\ sc_pc' # "crashed"]_vars

\* A serial run reached classification after a pair was tested and nothing was
\* recorded for it.
NcclFailureWitness ==
    /\ mode = "serial"
    /\ sc_pc = "classified"
    /\ threshold # NoThreshold
    /\ results = <<>>

\* C3: once a bandwidth is recorded for a host pair, no later step of the run
\* replaces that pair's value.
ResultNeverOverwritten ==
    [][\A pr \in DOMAIN results :
         pr \in DOMAIN results' /\ results'[pr] = results[pr]]_vars

\* The good and bad sets have been computed.
Classified ==
    \/ sc_pc \in {"classified", "retest", "retesting"}
    \/ sc_pc = "done" /\ sc_exit = 0
    \/ sc_pc = "crashed" /\ known_good_node # "none"

\* C4 (as claimed): after classification no host is in both sets.
GoodBadDisjoint == Classified => good_nodes \cap bad_nodes = {}

\* C4 (as amended): after classification the hosts of every recorded pair are
\* together in the good set or together in the bad set, and a host is in both
\* only if it belongs to two different recorded pairs, which takes a host list
\* that names it more than once; for a list of distinct hosts the sets are
\* disjoint.
GoodBadOverlapOnlyAcrossPairs ==
    Classified =>
        /\ \A pr \in DOMAIN results :
             \/ {pr[1], pr[2]} \subseteq good_nodes
             \/ {pr[1], pr[2]} \subseteq bad_nodes
        /\ \A h \in good_nodes \cap bad_nodes :
             /\ Occurrences(reachable_hosts, h) >= 2
             /\ \E pr, qr \in DOMAIN results :
                  /\ pr # qr
                  /\ h \in {pr[1], pr[2]} /\ h \in {qr[1], qr[2]}
        /\ (\A h \in Hosts : Occurrences(reachable_hosts, h) <= 1) =>
             good_nodes \cap bad_nodes = {}

\* Two pairs were recorded and classified, a good one and a bad one.
GoodBadWitness ==
    /\ Classified
    /\ Cardinality(DOMAIN results) = 2
    /\ good_nodes # {}
    /\ bad_nodes # {}

\* The pair's own threshold: the minimum of its two hosts' model thresholds.
PairThreshold(pr) ==
    Min(DetermineGpuModel(shape_of[pr[1]]).threshold,
        DetermineGpuModel(shape_of[pr[2]]).threshold)

\* C5: in the serial and in the parallel scout, every pair with a recorded
\* bandwidth is classified against its own threshold: both hosts are good if
\* the bandwidth reaches it and bad if the bandwidth is below it.
EachPairAgainstOwnThreshold ==
    Classified =>
        \A pr \in DOMAIN results :
            /\ results[pr] >= PairThreshold(pr) => {pr[1], pr[2]} \subseteq good_nodes
            /\ results[pr] < PairThreshold(pr) => {pr[1], pr[2]} \subseteq bad_nodes

(***************************************************************************)
(* Properties: reachability check                                          *)
(***************************************************************************)
\* C6: the list check_hosts_concurrently builds holds only entries of the input
\* list, one per entry whose probe succeeded and none for an entry whose probe
\* returned false or raised; and the check returns only after every entry's
\* future was handled, whatever the other probes did.
ReachableOnlyProbedOk ==
    /\ \A k \in 1..Len(reachable_hosts) :
         \E i \in 1..Len(hosts) : hosts[i] = reachable_hosts[k]
    /\ \A h \in Hosts :
         Occurrences(reachable_hosts, h) =
           Cardinality({i \in collected : hosts[i] = h /\ probe[i] = "ssh_ok"})
    /\ chk_pc = "returned" =>
         /\ collected = 1..Len(hosts)
         /\ \A i \in 1..Len(hosts) : probe[i] \in ProbeOutcomes

\* The check has returned a non-empty list although one probe returned false
\* and another raised.
ReachableWitness ==
    /\ chk_pc = "returned"
    /\ Len(reachable_hosts) >= 1
    /\ \E i, j \in 1..Len(hosts) :
         probe[i] = "ssh_failed" /\ probe[j] = "other_exception"

(***************************************************************************)
(* Properties: capacity-topology reporter                                  *)
(***************************************************************************)
Printed(status) ==
    IF status \in DOMAIN rep_out[1].state THEN rep_out[1].state[status] ELSE 0

RecordsSeen ==
    raw_seen[<<"AVAILABLE", FALSE>>] + raw_seen[<<"AVAILABLE", TRUE>>]
    + raw_seen[<<"UNAVAILABLE", FALSE>>] + raw_seen[<<"UNAVAILABLE", TRUE>>]
    + raw_seen[<<"DEGRADED", FALSE>>] + raw_seen[<<"DEGRADED", TRUE>>]
    + raw_seen[<<"OTHER", FALSE>>] + raw_seen[<<"OTHER", TRUE>>]

\* 6 AVAILABLE without instance, 3 AVAILABLE with instance, 1 DEGRADED without.
ScenarioTopology ==
    raw_seen = [k \in NodeKinds |->
                  IF k = <<"AVAILABLE", FALSE>> THEN 6
                  ELSE IF k = <<"AVAILABLE", TRUE>> THEN 3
                  ELSE IF k = <<"DEGRADED", FALSE>> THEN 1
                  ELSE 0]

\* C7 (as amended): the printed counts file every host under its derived status,
\* where AVAILABLE without instance is AVAILABLE, AVAILABLE with instance is
\* RUNNING and DEGRADED without instance is IN_REPAIR (as is UNAVAILABLE without
\* instance); the printed total is the number of host records; the 6/3/1
\* topology prints {AVAILABLE:6, RUNNING:3, IN_REPAIR:1}, total 10.
ReportCountsDerivedStatus ==
    rep_out # <<>> =>
        /\ Printed("AVAILABLE") = raw_seen[<<"AVAILABLE", FALSE>>]
        /\ Printed("RUNNING") = raw_seen[<<"AVAILABLE", TRUE>>]
                                + raw_seen[<<"UNAVAILABLE", TRUE>>]
                                + raw_seen[<<"DEGRADED", TRUE>>]
        /\ Printed("IN_REPAIR") = raw_seen[<<"DEGRADED", FALSE>>]
                                  + raw_seen[<<"UNAVAILABLE", FALSE>>]
        /\ Printed("UNAVAILABLE_DEGRADED") = 0
        /\ rep_out[1].total = RecordsSeen
        /\ ScenarioTopology =>
             /\ rep_out[1].state = [s \in {"AVAILABLE", "RUNNING", "IN_REPAIR"} |->
                                      CASE s = "AVAILABLE" -> 6
                                        [] s = "RUNNING" -> 3
                                        [] OTHER -> 1]
             /\ rep_out[1].total = 10

\* The 6/3/1 topology has been reported.
ReportScenarioWitness ==
    /\ rep_out # <<>>
    /\ ScenarioTopology
    /\ rep_exit = 0

\* C7 (as claimed): DEGRADED without instance is counted as UNAVAILABLE_DEGRADED,
\* and the 6/3/1 topology prints {AVAILABLE:6, RUNNING:3, UNAVAILABLE_DEGRADED:1}.
ReportCountsAsClaimed ==
    rep_out # <<>> =>
        /\ Printed("AVAILABLE") = raw_seen[<<"AVAILABLE", FALSE>>]
        /\ Printed("UNAVAILABLE_DEGRADED") = raw_seen[<<"DEGRADED", FALSE>>]
        /\ rep_out[1].total = RecordsSeen
        /\ ScenarioTopology =>
             rep_out[1].state =
               [s \in {"AVAILABLE", "RUNNING", "UNAVAILABLE_DEGRADED"} |->
                  CASE s = "AVAILABLE" -> 6 [] s = "RUNNING" -> 3 [] OTHER -> 1]

\* C8: the reporter ends with exit code 1 when the listing call raised and with
\* exit code 0 when it succeeded, for every number of records, zero included.
ReportExitCode ==
    rep_pc = "exit" =>
        /\ rep_listing = "raised" => rep_exit = 1
        /\ rep_listing = "ok" => rep_exit = 0

(***************************************************************************)
(* Properties: instance tagger                                             *)
(***************************************************************************)
\* C9: in both scripts, a get-instance or update-instance call that fails with
\* an API error is logged and ends the process with a non-zero exit code, and
\* no update is issued after a failed get.
TaggerApiErrorExitsNonZero ==
    (tag_pc = "exit" /\ tag_failed # "none") =>
        /\ tag_logged
        /\ tag_exit > 0
        /\ tag_failed = "get" => updates = <<>>

\* The fetched tag set with ComputeInstanceHostActions.CustomerReportedHostStatus
\* set to 'unhealthy' and every other namespace and key as fetched.
WithUnhealthyTag(t) ==
    [n \in DOMAIN t \cup {"ComputeInstanceHostActions"} |->
        IF n = "ComputeInstanceHostActions"
        THEN LET old == IF n \in DOMAIN t THEN t[n] ELSE NoTags IN
             [k \in DOMAIN old \cup {"CustomerReportedHostStatus"} |->
                IF k = "CustomerReportedHostStatus" THEN "unhealthy" ELSE old[k]]
        ELSE t[n]]

\* C10: a tagger run that ends without an API error has issued exactly one update
\* call, whose tag set is the fetched one with the unhealthy tag set and every
\* other defined tag, in any namespace and under any other key, unchanged.
TaggerUpdateKeepsOtherTags ==
    (tag_pc = "exit" /\ tag_failed = "none" /\ tags # NoTags) =>
        /\ Len(updates) = 1
        /\ updates[1] = WithUnhealthyTag(fetched_tags)

(***************************************************************************)
(* Properties: NCCL scout, host shortage and retests                       *)
(***************************************************************************)
\* C11: when fewer than two hosts are reachable, the scout (serial or parallel)
\* stops without having run any bandwidth test, and the process exits with
\* code 1.
NotEnoughHostsExitsOne ==
    sc_pc = "not_enough" =>
        /\ Len(reachable_hosts) < 2
        /\ calls = <<>> /\ results = <<>> /\ files = {}
        /\ sc_exit = 1

\* C13: whenever a retest is run, the script handed to run_nccl_test is the
\* benchmark script of a recognized GPU model, never None, whichever pairs of
\* the pairing loop were skipped for an unrecognized shape and whichever were
\* tested, the last pair examined included.
RetestScriptRecognized ==
    sc_pc = "retesting" =>
        calls[NumPairs + retest_n].script \in {AllreduceScript, AllreduceH100Script}

\* The retest loop has been entered.
RetestBegun == known_good_node # "none"

\* A step of the retest phase as the claim describes it; the only retest that
\* may fail to return is one that met an operating-system error.
RetestStep ==
    /\ good_nodes' = {} => (~RetestBegun' /\ retest_n' = 0 /\ retest_results' = <<>>)
    /\ RetestBegun' =>
         /\ known_good_node' \in good_nodes'
         /\ retest_left' \subseteq bad_nodes'
         /\ retest_n' = Cardinality(bad_nodes' \ retest_left')
         /\ DOMAIN retest_results' \subseteq
              {<<known_good_node', b>> : b \in bad_nodes' \ retest_left'}
         /\ IF sc_pc' = "retesting"
            THEN DOMAIN calls' = {NumPairs' + retest_n'}
            ELSE calls' = <<>>
         /\ sc_pc' = "done" => retest_left' = {}
    /\ (sc_pc = "retest" /\ sc_pc' = "retesting") =>
         \E node \in retest_left :
            /\ retest_left' = retest_left \ {node}
            /\ calls'[NumPairs + retest_n'].host1 = known_good_node
            /\ calls'[NumPairs + retest_n'].host2 = node
    /\ (sc_pc = "retesting" /\ sc_pc' # "retesting") =>
         LET c == calls[NumPairs + retest_n] IN
         c.outcome.kind # "os_error" =>
            /\ sc_pc' = "retest"
            /\ c.pending.kind = "return"
            /\ retest_results' =
                 IF c.pending.value # NoBandwidth
                 THEN DictSet(retest_results, <<c.host1, c.host2>>, c.pending.value)
                 ELSE retest_results

\* C12: after classification, with good_nodes non-empty the scout picks one host
\* of good_nodes and runs, one at a time, exactly one retest of it against each
\* host of bad_nodes, and records a retest result for each retest that returns
\* a bandwidth; with good_nodes empty it runs no retest.
RetestEachBadNodeOnce == [][RetestStep]_vars
====
